---- MODULE Spec2Model ----
(***************************************************************************)
(* Model of the Pomodoro session tracker (src/pomodoro/pomodoro.py) and of *)
(* the migration of its data files (src/pomodoro/reform_data.py).          *)
(*                                                                         *)
(* A datetime is a record [day, minute]; the strings the program makes of  *)
(* it are strings.  A dict is the sequence of its <<key, value>> items in  *)
(* insertion order; a list is a sequence.  The data directory is a         *)
(* function from the paths of the files that exist to their text: <<>> for *)
(* a file with nothing in it, <<data>> for a file holding the dump of      *)
(* data, and <<data, tail>> when the characters tail of an older, longer   *)
(* text are left after the dump.                                           *)
(*                                                                         *)
(* A start or stop takes up to three steps of its run: the call up to the  *)
(* prompt, the answer up to the opening of the file, and the closing of    *)
(* the file.  Other runs can take steps in between.  The constructor is   *)
(* one step: in every behaviour of the model it runs while no run has the  *)
(* file open for writing, so that its reads of the file meet no write.     *)
(***************************************************************************)
EXTENDS Integers, Sequences, FiniteSets, TLC

VARIABLES disk, pom, ncalls, last, script, clock, argv, call

vars == <<disk, pom, ncalls, last, script, clock, argv, call>>

(* ------------------------------ bounds -------------------------------- *)

\* minutes of the day range over 0..MaxMinute
MaxMinute == 1
\* a start or stop is only called while the instance holds fewer actions
MaxLen == 4
\* operations invoked on one Pomodoro instance
MaxOps == 2

(* ------------------------------ inputs -------------------------------- *)

\* config["activities"], the choices of the activity argument
Activities == {"reading", "coding"}

\* activity=None, as passed for the recap subcommand
None == "None"

\* lines typed at the confirmation prompt
Answers == {"y", "n", ""}

Procs == {1, 2}

\* calendar days, counted from the first of January 2024
Days == {0, 1}

Datetimes == [day : Days, minute : 0..MaxMinute]

\* the moments of the first day
Times == {t \in Datetimes : t.day = 0}

(* ---------------------------- datetime -------------------------------- *)

DigitSeq == "0123456789"

DigitChars == {"0", "1", "2", "3", "4", "5", "6", "7", "8", "9"}

\* f"{n:02d}"
two_digits(n) ==
    SubSeq(DigitSeq, (n \div 10) + 1, (n \div 10) + 1)
    \o SubSeq(DigitSeq, (n % 10) + 1, (n % 10) + 1)

\* int(s) of two digits
two_digit_number(s) ==
    LET digit(c) == CHOOSE d \in 0..9 : SubSeq(DigitSeq, d + 1, d + 1) = c
    IN  10 * digit(SubSeq(s, 1, 1)) + digit(SubSeq(s, 2, 2))

\* time.date().isoformat(): "YYYY-MM-DD"
date_isoformat(t) == "2024-01-" \o two_digits(t.day + 1)

\* datetime.isoformat(): "YYYY-MM-DDTHH:MM:SS"
isoformat(t) ==
    date_isoformat(t) \o "T" \o two_digits(t.minute \div 60) \o ":"
    \o two_digits(t.minute % 60) \o ":00"

\* the string has the form datetime.isoformat() gives to a moment of the
\* model's month; datetime.fromisoformat() raises ValueError on the others
\* that the model lets it meet
iso_wellformed(s) ==
    /\ Len(s) = 19
    /\ SubSeq(s, 1, 8) = "2024-01-"
    /\ SubSeq(s, 11, 11) = "T"
    /\ SubSeq(s, 14, 14) = ":"
    /\ SubSeq(s, 17, 19) = ":00"
    /\ \A i \in {9, 10, 12, 13, 15, 16} : SubSeq(s, i, i) \in DigitChars
    /\ two_digit_number(SubSeq(s, 9, 10)) \in 1..31
    /\ two_digit_number(SubSeq(s, 12, 13)) < 24
    /\ two_digit_number(SubSeq(s, 15, 16)) < 60

\* datetime.fromisoformat()
fromisoformat(s) ==
    [day |-> two_digit_number(SubSeq(s, 9, 10)) - 1,
     minute |-> two_digit_number(SubSeq(s, 12, 13)) * 60
                + two_digit_number(SubSeq(s, 15, 16))]

\* the difference taken the other way round
timediff_reversed(t1, t2) == (t2.day - t1.day) * 1440 + (t2.minute - t1.minute)

\* datetime - datetime, a timedelta in minutes
timediff(t1, t2) == (t1.day - t2.day) * 1440 + (t1.minute - t2.minute)

\* the path made from the first day whatever the date of the time
path_of_first_day(t) == <<"data", date_isoformat([day |-> 0, minute |-> 0]), "json">>

\* os.path.join(DATA_DIR, f"{date}.json")
path_of(t) == <<"data", date_isoformat(t), "json">>

(* --------------------------- command line ----------------------------- *)

\* A --time string "HH:MM{AM|PM}" is modelled by <<hour, minute, half>>, a
\* --date string "MM-DD-YY" by <<day>>, and the default "" (or None, when
\* the subcommand has no such option) by <<>>.
TimeArgs == {<<>>} \cup {<<12, m, "AM">> : m \in 0..MaxMinute}

DateArgs == {<<>>} \cup {<<d>> : d \in Days}

\* datetime.strptime(time, "%I:%M%p"): the minute of the day
strptime_time(time) ==
    ((time[1] % 12) + (IF time[3] = "PM" THEN 12 ELSE 0)) * 60 + time[2]

\* datetime.strptime(date, "%m-%d-%y"): midnight of the day
strptime_date(date) == [day |-> date[1], minute |-> 0]

\* merge_times; now is datetime.now(), which the model keeps to the minute
merge_times(time, date, now) ==
    IF time = <<>> /\ date = <<>> THEN now
    ELSE IF time = <<>> THEN strptime_date(date)
    ELSE IF date = <<>>
         THEN [day |-> now.day, minute |-> strptime_time(time)]
         ELSE [day |-> strptime_date(date).day, minute |-> strptime_time(time)]

(* ------------------------------ dicts --------------------------------- *)

\* {}
EmptyDict == <<>>

\* the keys of d, as a set
keys(d) == {d[i][1] : i \in DOMAIN d}

\* d[k] of a key that d has
dict_at(d, k) == d[CHOOSE i \in DOMAIN d : d[i][1] = k][2]

\* d[k] = v: a key that d has keeps its place, a new key goes to the end
dict_set(d, k, v) ==
    IF k \in keys(d)
    THEN [i \in DOMAIN d |-> IF d[i][1] = k THEN <<k, v>> ELSE d[i]]
    ELSE Append(d, <<k, v>>)

\* d.get(k, default)
dict_get(d, k, default) == IF k \in keys(d) THEN dict_at(d, k) ELSE default

\* d1 == d2 of two dicts of strings: the same keys with the same values,
\* in whatever order
dict_eq(d1, d2) ==
    /\ keys(d1) = keys(d2)
    /\ \A k \in keys(d1) : dict_at(d1, k) = dict_at(d2, k)

\* xs[-1] of a non-empty list
last_of(xs) == xs[Len(xs)]

\* {"action": action, "time": time}
action_item(action, time) == << <<"action", action>>, <<"time", time>> >>

(* ------------------------------- JSON --------------------------------- *)

\* The texts are those of json.dump(data, f, indent=4) for a day log: an
\* object whose member "activities" is an object of lists of objects of
\* strings, and whose other members are strings.

\* the characters of the first n members of an action, at indent 16
RECURSIVE json_size_members(_, _)
json_size_members(item, n) ==
    IF n = 0 THEN 0
    ELSE json_size_members(item, n - 1)
         + (IF n > 1 THEN 2 ELSE 0)
         + 16 + (Len(item[n][1]) + 2) + 2 + (Len(item[n][2]) + 2)

\* the characters of the first n actions of a list, at indent 12
RECURSIVE json_size_list(_, _)
json_size_list(actions, n) ==
    IF n = 0 THEN 0
    ELSE json_size_list(actions, n - 1)
         + (IF n > 1 THEN 2 ELSE 0)
         + 12
         + (IF actions[n] = <<>> THEN 2
            ELSE 2 + json_size_members(actions[n], Len(actions[n])) + 1 + 12 + 1)

\* the characters of the first n items of an activity log, at indent 8
RECURSIVE json_size_log(_, _)
json_size_log(log, n) ==
    IF n = 0 THEN 0
    ELSE json_size_log(log, n - 1)
         + (IF n > 1 THEN 2 ELSE 0)
         + 8 + (Len(log[n][1]) + 2) + 2
         + (IF log[n][2] = <<>> THEN 2
            ELSE 2 + json_size_list(log[n][2], Len(log[n][2])) + 1 + 8 + 1)

\* the characters of the first n members of a day log, at indent 4
RECURSIVE json_size_top(_, _)
json_size_top(data, n) ==
    IF n = 0 THEN 0
    ELSE json_size_top(data, n - 1)
         + (IF n > 1 THEN 2 ELSE 0)
         + 4 + (Len(data[n][1]) + 2) + 2
         + (IF data[n][1] # "activities" THEN Len(data[n][2]) + 2
            ELSE IF data[n][2] = <<>> THEN 2
            ELSE 2 + json_size_log(data[n][2], Len(data[n][2])) + 1 + 4 + 1)

\* the number of characters json.dump(data, f, indent=4) writes
json_size(data) ==
    IF data = <<>> THEN 2 ELSE 2 + json_size_top(data, Len(data)) + 1 + 1

spaces(n) == SubSeq("                ", 1, n)

quoted(s) == "\"" \o s \o "\""

\* the members of an action from the n-th on
RECURSIVE json_chars_members(_, _)
json_chars_members(item, n) ==
    IF n > Len(item) THEN ""
    ELSE (IF n > 1 THEN ",\n" ELSE "") \o spaces(16) \o quoted(item[n][1])
         \o ": " \o quoted(item[n][2]) \o json_chars_members(item, n + 1)

\* the actions of a list from the n-th on
RECURSIVE json_chars_list(_, _)
json_chars_list(actions, n) ==
    IF n > Len(actions) THEN ""
    ELSE (IF n > 1 THEN ",\n" ELSE "") \o spaces(12)
         \o (IF actions[n] = <<>> THEN "{}"
             ELSE "{\n" \o json_chars_members(actions[n], 1)
                  \o "\n" \o spaces(12) \o "}")
         \o json_chars_list(actions, n + 1)

\* the items of an activity log from the n-th on
RECURSIVE json_chars_log(_, _)
json_chars_log(log, n) ==
    IF n > Len(log) THEN ""
    ELSE (IF n > 1 THEN ",\n" ELSE "") \o spaces(8) \o quoted(log[n][1]) \o ": "
         \o (IF log[n][2] = <<>> THEN "[]"
             ELSE "[\n" \o json_chars_list(log[n][2], 1)
                  \o "\n" \o spaces(8) \o "]")
         \o json_chars_log(log, n + 1)

\* the members of a day log from the n-th on
RECURSIVE json_chars_top(_, _)
json_chars_top(data, n) ==
    IF n > Len(data) THEN ""
    ELSE (IF n > 1 THEN ",\n" ELSE "") \o spaces(4) \o quoted(data[n][1]) \o ": "
         \o (IF data[n][1] # "activities" THEN quoted(data[n][2])
             ELSE IF data[n][2] = <<>> THEN "{}"
             ELSE "{\n" \o json_chars_log(data[n][2], 1)
                  \o "\n" \o spaces(4) \o "}")
         \o json_chars_top(data, n + 1)

\* the characters json.dump(data, f, indent=4) writes; the items of every
\* dict come in insertion order
json_chars(data) ==
    IF data = <<>> THEN "{}" ELSE "{\n" \o json_chars_top(data, 1) \o "\n}"

\* The decoder of json.load, one character at a time.  mode is what it
\* expects next, stack holds the objects and arrays it is inside of, each
\* with the items it has so far and, for an object, the key whose value is
\* to come, acc holds the characters of the string or name it is in, and
\* part says where in a number it is.  foreign is set once a value is not
\* of the kind a day log has at its place; such a value is left out.

Whitespace == {" ", "\n", "\t", "\r"}

\* the characters of the texts that a string cannot hold; the texts hold
\* no backslash
Control == {"\n", "\t", "\r", "\f"}

Literals == {"null", "true", "false", "NaN", "Infinity", "-Infinity"}

PsInit ==
    [mode |-> "value", stack |-> <<>>, first |-> FALSE, part |-> "",
     acc |-> "", value |-> <<>>, foreign |-> FALSE]

\* the decoder has raised json.JSONDecodeError
PsDead == [PsInit EXCEPT !.mode = "dead"]

\* the decoder after the text of json.dump(data, f, indent=4)
PsDone(data) == [PsInit EXCEPT !.mode = "done", !.value = data]

frame(kind, items, key) == [kind |-> kind, items |-> items, key |-> key]

top_of(stack) == stack[Len(stack)]

pop(stack) == SubSeq(stack, 1, Len(stack) - 1)

\* the kind of value a day log has inside the containers of stack
expected(stack) ==
    IF Len(stack) = 0 THEN "object"
    ELSE IF Len(stack) = 1
         THEN (IF stack[1].key = "activities" THEN "object" ELSE "string")
    ELSE IF Len(stack) = 2 THEN "array"
    ELSE IF Len(stack) = 3 THEN "object"
    ELSE "string"

\* the decoder at the end of a value v of a kind, inside the containers of
\* stack: the value goes to the object or array it is in
ps_value(ps, stack, kind, v) ==
    LET fits == kind = expected(stack)
        w == IF fits THEN v
             ELSE IF expected(stack) = "string" THEN "" ELSE <<>>
        foreign == ps.foreign \/ ~fits
    IN  IF stack = <<>>
        THEN [PsDone(w) EXCEPT !.foreign = foreign]
        ELSE LET top == top_of(stack)
                 items == IF top.kind = "object"
                          THEN dict_set(top.items, top.key, w)
                          ELSE Append(top.items, w)
             IN  [PsInit EXCEPT
                     !.mode = "after",
                     !.stack = Append(pop(stack), frame(top.kind, items, "")),
                     !.foreign = foreign]

\* where the decoder is in a number after one more character, "" when the
\* character is not part of the number
ps_number(part, c) ==
    IF part = "minus"
    THEN (IF c = "0" THEN "zero" ELSE IF c \in DigitChars THEN "int" ELSE "")
    ELSE IF part = "zero"
    THEN (IF c = "." THEN "dot" ELSE IF c \in {"e", "E"} THEN "e" ELSE "")
    ELSE IF part = "int"
    THEN (IF c \in DigitChars THEN "int" ELSE IF c = "." THEN "dot"
          ELSE IF c \in {"e", "E"} THEN "e" ELSE "")
    ELSE IF part = "dot"
    THEN (IF c \in DigitChars THEN "frac" ELSE "")
    ELSE IF part = "frac"
    THEN (IF c \in DigitChars THEN "frac"
          ELSE IF c \in {"e", "E"} THEN "e" ELSE "")
    ELSE IF part = "e"
    THEN (IF c \in DigitChars THEN "exp"
          ELSE IF c \in {"+", "-"} THEN "sign" ELSE "")
    ELSE (IF c \in DigitChars THEN "exp" ELSE "")

\* the decoder after one more character
RECURSIVE ps_step(_, _)
ps_step(ps, c) ==
    LET stack == ps.stack IN
    IF ps.mode = "dead" THEN ps
    ELSE IF ps.mode = "done" THEN (IF c \in Whitespace THEN ps ELSE PsDead)
    ELSE IF ps.mode = "string" THEN
        IF c = "\""
        THEN IF ps.part = "key"
             THEN [ps EXCEPT !.mode = "colon", !.acc = "", !.part = "",
                             !.stack = Append(pop(stack),
                                 frame("object", top_of(stack).items, ps.acc))]
             ELSE ps_value(ps, stack, "string", ps.acc)
        ELSE IF c \in Control THEN PsDead
        ELSE [ps EXCEPT !.acc = @ \o c]
    ELSE IF ps.mode = "number" THEN
        IF ps_number(ps.part, c) # ""
        THEN [ps EXCEPT !.part = ps_number(ps.part, c)]
        ELSE IF ps.part = "minus" /\ c = "I"
        THEN [ps EXCEPT !.mode = "name", !.acc = "-I", !.part = ""]
        ELSE IF ps.part \in {"zero", "int", "frac", "exp"}
        THEN ps_step(ps_value(ps, stack, "number", 0), c)
        ELSE PsDead
    ELSE IF ps.mode = "name" THEN
        IF ps.acc \o c \in Literals
        THEN ps_value(ps, stack, "name", 0)
        ELSE IF \E name \in Literals :
                   /\ Len(ps.acc) + 1 < Len(name)
                   /\ SubSeq(name, 1, Len(ps.acc) + 1) = ps.acc \o c
        THEN [ps EXCEPT !.acc = @ \o c]
        ELSE PsDead
    ELSE IF c \in Whitespace THEN ps
    ELSE IF ps.mode = "value" THEN
        IF c = "\""
        THEN [ps EXCEPT !.mode = "string", !.part = "value", !.acc = "",
                        !.first = FALSE]
        ELSE IF c = "{"
        THEN [ps EXCEPT !.mode = "key", !.first = TRUE,
                        !.stack = Append(stack, frame("object", <<>>, ""))]
        ELSE IF c = "["
        THEN [ps EXCEPT !.mode = "value", !.first = TRUE,
                        !.stack = Append(stack, frame("array", <<>>, ""))]
        ELSE IF c = "]" /\ ps.first
        THEN ps_value(ps, pop(stack), "array", top_of(stack).items)
        ELSE IF c = "-"
        THEN [ps EXCEPT !.mode = "number", !.part = "minus", !.first = FALSE]
        ELSE IF c = "0"
        THEN [ps EXCEPT !.mode = "number", !.part = "zero", !.first = FALSE]
        ELSE IF c \in DigitChars
        THEN [ps EXCEPT !.mode = "number", !.part = "int", !.first = FALSE]
        ELSE IF c \in {"n", "t", "f", "N", "I"}
        THEN [ps EXCEPT !.mode = "name", !.acc = c, !.first = FALSE]
        ELSE PsDead
    ELSE IF ps.mode = "key" THEN
        IF c = "\""
        THEN [ps EXCEPT !.mode = "string", !.part = "key", !.acc = "",
                        !.first = FALSE]
        ELSE IF c = "}" /\ ps.first
        THEN ps_value(ps, pop(stack), "object", top_of(stack).items)
        ELSE PsDead
    ELSE IF ps.mode = "colon" THEN
        (IF c = ":" THEN [ps EXCEPT !.mode = "value"] ELSE PsDead)
    ELSE \* after a value inside an object or array
        IF c = ","
        THEN [ps EXCEPT !.mode = IF top_of(stack).kind = "object"
                                 THEN "key" ELSE "value"]
        ELSE IF c = "}" /\ top_of(stack).kind = "object"
        THEN ps_value(ps, pop(stack), "object", top_of(stack).items)
        ELSE IF c = "]" /\ top_of(stack).kind = "array"
        THEN ps_value(ps, pop(stack), "array", top_of(stack).items)
        ELSE PsDead

\* the decoder after the characters lo..hi of s
RECURSIVE ps_feed(_, _, _, _)
ps_feed(ps, s, lo, hi) ==
    IF ps.mode = "dead" \/ lo > hi THEN ps
    ELSE IF lo = hi THEN ps_step(ps, SubSeq(s, lo, lo))
    ELSE LET mid == (lo + hi) \div 2
         IN  ps_feed(ps_feed(ps, s, lo, mid), s, mid + 1, hi)

\* the number of characters in a file
size_of(text) ==
    IF text = <<>> THEN 0
    ELSE json_size(text[1]) + (IF Len(text) = 2 THEN Len(text[2]) ELSE 0)

\* the characters of a file
chars_of(text) ==
    IF text = <<>> THEN ""
    ELSE json_chars(text[1]) \o (IF Len(text) = 2 THEN text[2] ELSE "")

\* the characters lo..hi of a file
chars_from(text, lo, hi) ==
    IF Len(text) = 2 /\ lo > json_size(text[1])
    THEN SubSeq(text[2], lo - json_size(text[1]), hi - json_size(text[1]))
    ELSE SubSeq(chars_of(text), lo, hi)

\* the decoder after all the characters of a file
ps_of(text) ==
    IF text = <<>> THEN PsInit
    ELSE IF Len(text) = 1 THEN PsDone(text[1])
    ELSE ps_feed(PsDone(text[1]), text[2], 1, Len(text[2]))

\* json.dump(data, f): the text written, which is one JSON value
json_dump(data) == <<data>>

\* json.load(f) raises json.JSONDecodeError: the characters are not one
\* JSON value, with nothing but white space after it
decode_error(text) == ps_of(text).mode # "done"

\* json.load(f) of a text that holds one JSON value
json_load(text) == ps_of(text).value

\* read_file(path)
read_file(dsk, path) == json_load(dsk[path])

(* --------------------------- class Pomodoro --------------------------- *)

\* Pomodoro.__init__ from self.date on: the fields of a new instance.  When
\* data has an "activities" member, activity_log is that very dict of data;
\* otherwise it is a new dict that data does not hold.
instance_of(time, activity, data) ==
    [time |-> time,
     path |-> path_of(time),
     data |-> data,
     date |-> dict_at(data, "date"),
     activity_log |-> dict_get(data, "activities", EmptyDict),
     activity |-> activity]

\* Pomodoro.__init__ with the decoder of read_file at ps when the file has
\* come to its end: the error raised, by json.load or by self.data["date"],
\* or "" and the instance
init_decoded(time, activity, ps) ==
    IF ps.mode # "done" THEN [raised |-> "JSONDecodeError"]
    ELSE IF "date" \notin keys(ps.value) THEN [raised |-> "KeyError"]
    ELSE [raised |-> "", e |-> instance_of(time, activity, ps.value)]

\* Pomodoro.__init__ while no other run writes the file: read_file gets the
\* characters the file holds
Pomodoro_init(dsk, time, activity) ==
    IF path_of(time) \in DOMAIN dsk
    THEN init_decoded(time, activity, ps_of(dsk[path_of(time)]))
    ELSE [raised |-> "",
          e |-> instance_of(time, activity,
                            << <<"date", date_isoformat(time)>> >>)]

\* An in-place change of self.activity_log: it shows in self.data exactly
\* when data["activities"] is the same object.
set_log(e, log) ==
    [e EXCEPT !.activity_log = log,
              !.data = IF "activities" \in keys(e.data)
                       THEN dict_set(e.data, "activities", log)
                       ELSE e.data]

\* a prompt that takes every line but 'n' for a yes
get_approval_unless_n(input) == input # "n"

\* Pomodoro._get_approval
get_approval(input) == input = "y"

\* the data directory with a file created or replaced
with_file(dsk, path, text) ==
    [x \in (DOMAIN dsk) \cup {path} |-> IF x = path THEN text ELSE dsk[x]]

\* Pomodoro._write_update up to open(self.path, "w"): the file exists and
\* holds nothing
write_update_open(dsk, e) == with_file(dsk, e.path, <<>>)

\* Pomodoro._write_update from json.dump to the end of the with block: the
\* text, buffered until then, is written from the start of the file, over
\* what another run may have written there since the file was opened
write_update_close(dsk, e) ==
    LET old == dsk[e.path]
        size == json_size(e.data)
    IN  with_file(dsk, e.path,
                  IF size_of(old) > size
                  THEN json_dump(e.data)
                       \o <<chars_from(old, size + 1, size_of(old))>>
                  ELSE json_dump(e.data))

\* Pomodoro._write_update with no other run in between
write_update(dsk, e) == write_update_close(write_update_open(dsk, e), e)

\* What a call hands back: the instance after it and what it did on the
\* way; events lists, in the order of execution, the calls of the prompt
\* with what they returned, the appends to an activity's list and the calls
\* of _write_update.
Outcome(e, asked, warning, raised, writes, printed, events) ==
    [e |-> e, asked |-> asked, warning |-> warning, raised |-> raised,
     writes |-> writes, printed |-> printed, events |-> events]

\* the call has come to its end
Returned(out) == [returned |-> TRUE, out |-> out, action |-> ""]

\* the call waits, at input() or in the with block of _write_update; out
\* is what it has done so far
Waiting(out, action) == [returned |-> FALSE, out |-> out, action |-> action]

\* self.activity_log[self.activity][-1] of an empty list
index_error(e) ==
    /\ e.activity \in keys(e.activity_log)
    /\ dict_at(e.activity_log, e.activity) = <<>>

\* self.activity_log[self.activity][-1]["action"] of an action without
\* that key
key_error(e) ==
    /\ e.activity \in keys(e.activity_log)
    /\ dict_at(e.activity_log, e.activity) # <<>>
    /\ "action" \notin keys(last_of(dict_at(e.activity_log, e.activity)))

\* the candidate of _add_action
new_action_of(e, action) == action_item(action, isoformat(e.time))

\* _add_action, the duplicate test
is_duplicate(e, new_action) ==
    /\ e.activity \in keys(e.activity_log)
    /\ dict_eq(last_of(dict_at(e.activity_log, e.activity)), new_action)

\* the elif replacing the activity log by one with the new key alone
with_entry_alone(e, new_action) ==
    IF is_duplicate(e, new_action) THEN e
    ELSE IF e.activity \notin keys(e.activity_log)
         THEN set_log(e, dict_set(EmptyDict, e.activity, <<>>))
         ELSE e

\* _add_action, the if/elif before the prompt
with_entry(e, new_action) ==
    IF is_duplicate(e, new_action) THEN e
    ELSE IF e.activity \notin keys(e.activity_log)
         THEN set_log(e, dict_set(e.activity_log, e.activity, <<>>))
         ELSE e

\* _add_action, the append
appended(e, new_action) ==
    set_log(e, dict_set(e.activity_log, e.activity,
                        Append(dict_at(e.activity_log, e.activity), new_action)))

\* Pomodoro._add_action up to input()
add_action(e, action) ==
    LET new_action == new_action_of(e, action) IN
    IF index_error(e)
    THEN Returned(Outcome(e, FALSE, "", "IndexError", 0, <<>>, <<>>))
    ELSE Waiting(Outcome(with_entry(e, new_action), TRUE,
                         IF is_duplicate(e, new_action) THEN "duplicate" ELSE "",
                         "", 0, <<>>, <<>>),
                 action)

\* Pomodoro._add_action from the line read by input() to open() in
\* _write_update, or to its end when the line is not 'y'
add_action_answered(e, action, warning, input) ==
    IF get_approval(input)
    THEN Waiting(Outcome(appended(e, new_action_of(e, action)), TRUE, warning,
                         "", 1, <<>>, <<"gate:true", "append", "write">>),
                 action)
    ELSE Returned(Outcome(e, TRUE, warning, "", 0, <<>>, <<"gate:false">>))

\* Pomodoro._add_action after _write_update
add_action_written(e, warning) ==
    Outcome(e, TRUE, warning, "", 1, <<>>, <<"gate:true", "append", "write">>)

\* the test of start with the kind of stop's test
start_refuses_unless_start(e) ==
    /\ e.activity \in keys(e.activity_log)
    /\ dict_at(last_of(dict_at(e.activity_log, e.activity)), "action") # "start"

\* Pomodoro.start, the test for a session in progress
start_refuses(e) ==
    /\ e.activity \in keys(e.activity_log)
    /\ dict_at(last_of(dict_at(e.activity_log, e.activity)), "action") # "stop"

\* Pomodoro.start up to its return or to input()
start(e) ==
    IF index_error(e)
    THEN Returned(Outcome(e, FALSE, "", "IndexError", 0, <<>>, <<>>))
    ELSE IF key_error(e)
    THEN Returned(Outcome(e, FALSE, "", "KeyError", 0, <<>>, <<>>))
    ELSE IF start_refuses(e)
         THEN Returned(Outcome(e, FALSE, "in-progress", "", 0, <<>>, <<>>))
         ELSE add_action(e, "start")

\* the test of stop without its look at the last action
stop_refuses_absent_only(e) ==
    e.activity \notin keys(e.activity_log)

\* Pomodoro.stop, the test for no active session
stop_refuses(e) ==
    \/ e.activity \notin keys(e.activity_log)
    \/ dict_at(last_of(dict_at(e.activity_log, e.activity)), "action") # "start"

\* stop handing the kind of start to the pipeline
stop_adds_start(e) ==
    IF index_error(e)
    THEN Returned(Outcome(e, FALSE, "", "IndexError", 0, <<>>, <<>>))
    ELSE IF key_error(e)
    THEN Returned(Outcome(e, FALSE, "", "KeyError", 0, <<>>, <<>>))
    ELSE IF stop_refuses(e)
         THEN Returned(Outcome(e, FALSE, "no-active-session", "", 0, <<>>, <<>>))
         ELSE add_action(e, "start")

\* Pomodoro.stop up to its return or to input()
stop(e) ==
    IF index_error(e)
    THEN Returned(Outcome(e, FALSE, "", "IndexError", 0, <<>>, <<>>))
    ELSE IF key_error(e)
    THEN Returned(Outcome(e, FALSE, "", "KeyError", 0, <<>>, <<>>))
    ELSE IF stop_refuses(e)
         THEN Returned(Outcome(e, FALSE, "no-active-session", "", 0, <<>>, <<>>))
         ELSE add_action(e, "stop")

\* show making an entry for an activity it does not find
show_makes_entry(e) ==
    LET e1 == IF e.activity \in keys(e.activity_log) THEN e
              ELSE set_log(e, dict_set(e.activity_log, e.activity, <<>>))
    IN  Returned(Outcome(e1, FALSE, "", "", 0,
                         dict_at(e1.activity_log, e1.activity), <<>>))

\* Pomodoro.show
show(e) ==
    IF e.activity \notin keys(e.activity_log)
    THEN Returned(Outcome(e, FALSE, "no-actions", "", 0, <<>>, <<>>))
    ELSE Returned(Outcome(e, FALSE, "", "", 0,
                          dict_at(e.activity_log, e.activity), <<>>))

\* datetime.fromisoformat(action["time"]) raises: the error, or ""
time_error(item) ==
    IF "time" \notin keys(item) THEN "KeyError"
    ELSE IF ~iso_wellformed(dict_at(item, "time")) THEN "ValueError"
    ELSE ""

\* recap, the error of the first action of a list whose time cannot be
\* taken; the loop and the if after it take the actions in their order
actions_error(actions) ==
    LET bad == {i \in DOMAIN actions : time_error(actions[i]) # ""}
    IN  IF bad = {} THEN ""
        ELSE time_error(actions[CHOOSE i \in bad : \A j \in bad : i <= j])

\* recap, the error of the first activity with one
recap_error(e) ==
    LET bad == {i \in DOMAIN e.activity_log :
                    actions_error(e.activity_log[i][2]) # ""}
    IN  IF bad = {} THEN ""
        ELSE actions_error(
                 e.activity_log[CHOOSE i \in bad : \A j \in bad : i <= j][2])

\* recap, the loop over the finished sessions: total_time after the first
\* n of them
RECURSIVE finished_time(_, _)
finished_time(actions, n) ==
    IF n = 0 THEN 0
    ELSE finished_time(actions, n - 1)
         + timediff(fromisoformat(dict_at(actions[2 * n], "time")),
                    fromisoformat(dict_at(actions[2 * n - 1], "time")))

\* the row with the unfinished session counted from the first action
recap_row_from_first(e, activity) ==
    LET actions == dict_at(e.activity_log, activity)
        num_finished_sessions == Len(actions) \div 2
        num_unfinished_sessions == Len(actions) % 2
        total_time ==
            finished_time(actions, num_finished_sessions)
            + IF num_unfinished_sessions # 0
              THEN timediff(e.time, fromisoformat(dict_at(actions[1], "time")))
              ELSE 0
    IN  [activity |-> activity,
         total_time |-> total_time,
         finished_sessions |-> num_finished_sessions,
         ongoing_sessions |-> num_unfinished_sessions]

\* recap, the row of one activity; total_time is the timedelta handed to
\* the formatter, in minutes
recap_row(e, activity) ==
    LET actions == dict_at(e.activity_log, activity)
        num_finished_sessions == Len(actions) \div 2
        num_unfinished_sessions == Len(actions) % 2
        total_time ==
            finished_time(actions, num_finished_sessions)
            + IF num_unfinished_sessions # 0
              THEN timediff(e.time,
                            fromisoformat(dict_at(last_of(actions), "time")))
              ELSE 0
    IN  [activity |-> activity,
         total_time |-> total_time,
         finished_sessions |-> num_finished_sessions,
         ongoing_sessions |-> num_unfinished_sessions]

\* recap, the loop over the activities: one row for each key of the
\* activity log, in the order of the dict
recap_rows(e) ==
    [i \in DOMAIN e.activity_log |-> recap_row(e, e.activity_log[i][1])]

\* Pomodoro.recap
recap(e) ==
    IF recap_error(e) # ""
    THEN Returned(Outcome(e, FALSE, "", recap_error(e), 0, <<>>, <<>>))
    ELSE Returned(Outcome(e, FALSE, "", "", 0, recap_rows(e), <<>>))

(* --------------------------- state machine ---------------------------- *)

Paths == {path_of(t) : t \in Datetimes}

\* a table of the runs with an entry set
put(f, k, v) == [x \in (DOMAIN f) \cup {k} |-> IF x = k THEN v ELSE f[x]]

\* a table of the runs with an entry taken out
without(f, k) == [x \in (DOMAIN f) \ {k} |-> f[x]]

\* a file in the layout the reader expects, with no activity yet
empty_day_file(path) ==
    json_dump(<< <<"date", path[2]>>, <<"activities", EmptyDict>> >>)

\* the activity log a new instance would load from a path; nothing when
\* there is no file or the file cannot be read
persisted_log(dsk, path) ==
    IF path \in DOMAIN dsk /\ ~decode_error(dsk[path])
    THEN dict_get(read_file(dsk, path), "activities", EmptyDict)
    ELSE EmptyDict

\* the state of an activity in a log
activity_state(log, activity) ==
    IF activity \notin keys(log) THEN "Absent"
    ELSE IF dict_at(log, activity) = <<>> THEN "Empty"
    ELSE LET item == last_of(dict_at(log, activity))
         IN  IF "action" \notin keys(item) THEN "Unknown"
             ELSE IF dict_at(item, "action") = "start" THEN "Running"
             ELSE IF dict_at(item, "action") = "stop" THEN "Stopped"
             ELSE "Unknown"

\* the number of actions in the first n lists of a log
RECURSIVE count_actions(_, _)
count_actions(log, n) ==
    IF n = 0 THEN 0
    ELSE Len(log[n][2]) + count_actions(log, n - 1)

NoOp ==
    [op |-> "none", proc |-> 0, first |-> FALSE, activity |-> None,
     time |-> [day |-> 0, minute |-> 0], state |-> "Absent",
     file |-> FALSE, before |-> <<>>, asked |-> FALSE, input |-> "",
     warning |-> "", raised |-> "", writes |-> 0, printed |-> <<>>,
     events |-> <<>>, loaded_before |-> {}]

\* the other runs that hold an instance of the file of p
others_on(p) == {q \in (DOMAIN pom) \ {p} : pom[q].path = pom[p].path}

\* What is remembered of the latest call that came to its end: who called
\* what, on the instance e0 and the data directory dsk0 of the moment of
\* the call, what was persisted for the activity then, and the outcome.
\* The typed line is kept only when the prompt read it.  loaded_before
\* holds the other runs whose instance had loaded the same file before the
\* call saved (or ended without saving) and has not been made anew since.
record_of(p, op, input, out, e0, dsk0, loaded) ==
    LET log == persisted_log(dsk0, e0.path)
    IN  [op |-> op, proc |-> p, first |-> ncalls[p] = 0,
         activity |-> e0.activity, time |-> e0.time,
         state |-> activity_state(log, e0.activity),
         file |-> e0.path \in DOMAIN dsk0,
         before |-> dict_get(log, e0.activity, <<>>),
         asked |-> out.asked, input |-> IF out.asked THEN input ELSE "",
         warning |-> out.warning, raised |-> out.raised, writes |-> out.writes,
         printed |-> out.printed, events |-> out.events,
         loaded_before |-> loaded]

\* The calls made so far on (file, activity), as long as they are a run of
\* start, stop, start, ... with increasing timestamps, each the only
\* operation of its instance and each answered 'y', on a date that had no
\* file to begin with; ok is FALSE once a call falls outside that.
tracked(p, kind, input) ==
    LET e == pom[p]
        s == script[e.path][e.activity]
        n == Len(s.calls)
        continues ==
            /\ s.ok
            /\ ncalls[p] = 0
            /\ input = "y"
            /\ n < MaxLen
            /\ kind = (IF n % 2 = 0 THEN "start" ELSE "stop")
            /\ n > 0 => timediff(e.time, fromisoformat(dict_at(s.calls[n], "time"))) > 0
    IN  [script EXCEPT ![e.path][e.activity] =
            IF continues
            THEN [ok |-> TRUE, calls |-> Append(s.calls, new_action_of(e, kind))]
            ELSE [ok |-> FALSE, calls |-> <<>>]]

untracked(p) ==
    [script EXCEPT ![pom[p].path][pom[p].activity] =
        [ok |-> FALSE, calls |-> <<>>]]

\* the script after a call of p came to its end
script_after(p, op, input) ==
    IF op \in {"start", "stop"} THEN tracked(p, op, input)
    ELSE IF op \in {"show", "recap"} THEN script
    ELSE untracked(p)

Init ==
    /\ \E existing \in SUBSET {path_of(t) : t \in Times} :
          disk = [path \in existing |-> empty_day_file(path)]
    /\ pom = [p \in {} |-> NoOp]
    /\ ncalls = [p \in {} |-> 0]
    /\ last = NoOp
    /\ script = [path \in Paths |-> [a \in Activities |->
                    [ok |-> path \notin DOMAIN disk, calls |-> <<>>]]]
    /\ clock = [day |-> 0, minute |-> 0]
    /\ argv = [p \in {} |-> <<>>]
    /\ call = [p \in {} |-> <<>>]

\* Pomodoro(time=..., activity=...) comes to its end in run p with result
\* r: the run holds the new instance, or ends with the error raised.  args
\* is the command line of the run.
Constructed(p, time, activity, args, r) ==
    IF r.raised # ""
    THEN /\ pom' = without(pom, p)
         /\ ncalls' = without(ncalls, p)
         /\ argv' = without(argv, p)
         /\ last' = [NoOp EXCEPT !.op = "Pomodoro", !.proc = p,
                                 !.activity = activity, !.time = time,
                                 !.file = TRUE, !.raised = r.raised]
    ELSE /\ pom' = put(pom, p, r.e)
         /\ ncalls' = put(ncalls, p, 0)
         /\ argv' = args
         /\ last' = [last EXCEPT !.loaded_before = @ \ {p}]

\* Pomodoro(time=..., activity=...) in run p, which is not inside a call,
\* while no run writes the file
Construct(p, time, activity, args) ==
    /\ p \notin DOMAIN call
    /\ Constructed(p, time, activity, args, Pomodoro_init(disk, time, activity))
    /\ UNCHANGED <<disk, script, clock, call>>

\* pomodoro = Pomodoro(time=..., activity=...)
New(p, time, activity) ==
    Construct(p, time, activity, without(argv, p))

\* a call of instance p comes to its end with outcome out; e0 and dsk0 are
\* the instance and the data directory of the moment of the call
Return(p, op, input, out, e0, dsk0, loaded) ==
    /\ pom' = [pom EXCEPT ![p] = out.e]
    /\ ncalls' = [ncalls EXCEPT ![p] = @ + 1]
    /\ last' = record_of(p, op, input, out, e0, dsk0, loaded)
    /\ script' = script_after(p, op, IF out.asked THEN input ELSE "y")
    /\ call' = without(call, p)
    /\ UNCHANGED <<clock, argv>>

\* a method of instance p is called and runs with result r: to its end, or
\* to input(), where the run waits for the line
Invoke(p, op, r) ==
    /\ p \notin DOMAIN call
    /\ disk' = disk
    /\ IF r.returned
       THEN Return(p, op, "", r.out, pom[p], disk, others_on(p))
       ELSE /\ pom' = [pom EXCEPT ![p] = r.out.e]
            /\ call' = put(call, p,
                           [at |-> "prompt", op |-> op, action |-> r.action,
                            warning |-> r.out.warning, input |-> "",
                            entered |-> pom[p], disk |-> disk,
                            loaded |-> {}])
            /\ UNCHANGED <<ncalls, last, script, clock, argv>>

\* an instance that can take one more start or stop
CanMutate(p) ==
    /\ p \in DOMAIN pom
    /\ pom[p].activity # None
    /\ ncalls[p] < MaxOps
    /\ count_actions(pom[p].activity_log, Len(pom[p].activity_log)) < MaxLen

\* pomodoro.start()
Start(p) ==
    /\ CanMutate(p)
    /\ Invoke(p, "start", start(pom[p]))

\* pomodoro.stop()
Stop(p) ==
    /\ CanMutate(p)
    /\ Invoke(p, "stop", stop(pom[p]))

\* pomodoro._add_action(action), called on its own
AddAction(p, action) ==
    /\ CanMutate(p)
    /\ Invoke(p, "_add_action:" \o action, add_action(pom[p], action))

\* the line typed at the prompt of run p: _add_action goes on to its end,
\* or to the with block of _write_update, where the file is open and empty
Answer(p, input) ==
    /\ p \in DOMAIN call
    /\ call[p].at = "prompt"
    /\ LET c == call[p]
           r == add_action_answered(pom[p], c.action, c.warning, input)
       IN  IF r.returned
           THEN /\ disk' = disk
                /\ Return(p, c.op, input, r.out, c.entered, c.disk, others_on(p))
           ELSE /\ pom' = [pom EXCEPT ![p] = r.out.e]
                /\ disk' = write_update_open(disk, r.out.e)
                /\ call' = [call EXCEPT ![p].at = "write", ![p].input = input,
                                        ![p].loaded = others_on(p)]
                /\ UNCHANGED <<ncalls, last, script, clock, argv>>

\* the with block of _write_update ends in run p: the text reaches the
\* file, and _add_action, with the method that called it, returns
Close(p) ==
    /\ p \in DOMAIN call
    /\ call[p].at = "write"
    /\ disk' = write_update_close(disk, pom[p])
    /\ LET c == call[p]
       IN  Return(p, c.op, c.input, add_action_written(pom[p], c.warning),
                  c.entered, c.disk, c.loaded \cap DOMAIN pom)

\* pomodoro.show()
Show(p) ==
    /\ p \in DOMAIN pom
    /\ pom[p].activity # None
    /\ ncalls[p] < MaxOps
    /\ Invoke(p, "show", show(pom[p]))

\* pomodoro.recap()
Recap(p) ==
    /\ p \in DOMAIN pom
    /\ ncalls[p] < MaxOps
    /\ Invoke(p, "recap", recap(pom[p]))

\* One user at one terminal: instances are made and used one at a time.
Next ==
    \E p \in {1} :
        \/ \E time \in Times, activity \in Activities \cup {None} :
              New(p, time, activity)
        \/ Start(p)
        \/ Stop(p)
        \/ \E input \in Answers : Answer(p, input)
        \/ Close(p)
        \/ Show(p)
        \/ Recap(p)

Spec == Init /\ [][Next]_vars

\* The same, with the mutation pipeline also called directly.
NextPipeline ==
    \E p \in {1} :
        \/ \E time \in Times, activity \in Activities :
              New(p, time, activity)
        \/ Start(p)
        \/ Stop(p)
        \/ \E action \in {"start", "stop"} : AddAction(p, action)
        \/ \E input \in Answers : Answer(p, input)
        \/ Close(p)

SpecPipeline == Init /\ [][NextPipeline]_vars

\* the clock of the host moves to the next minute of the day
Tick ==
    /\ clock.minute < MaxMinute
    /\ clock' = [clock EXCEPT !.minute = @ + 1]
    /\ UNCHANGED <<disk, pom, ncalls, last, script, argv, call>>

\* __main__ up to the construction: the parsed arguments, merge_times and
\* Pomodoro(...).  show and recap have no --time, recap has no activity.
Main(p, command, time, date, activity) ==
    /\ command \in {"show", "recap"} => time = <<>>
    /\ activity = None <=> command = "recap"
    /\ Construct(p, merge_times(time, date, clock), activity,
                 put(argv, p, [command |-> command, time |-> time,
                               date |-> date, now |-> clock]))

\* __main__, the dispatch on args.command: one operation per run
Dispatch(p, command) ==
    /\ p \in DOMAIN argv
    /\ argv[p].command = command
    /\ ncalls[p] = 0

\* The program run from the command line, one run after the other, on one
\* activity of the allow-list.
NextCli ==
    \E p \in {1} :
        \/ Tick
        \/ \E command \in {"start", "stop", "show", "recap"},
              time \in TimeArgs, date \in DateArgs,
              activity \in {"reading", None} :
              Main(p, command, time, date, activity)
        \/ Dispatch(p, "start") /\ Start(p)
        \/ Dispatch(p, "stop") /\ Stop(p)
        \/ \E input \in Answers : Answer(p, input)
        \/ Close(p)
        \/ Dispatch(p, "show") /\ Show(p)
        \/ Dispatch(p, "recap") /\ Recap(p)

SpecCli == Init /\ [][NextCli]_vars

\* the instance of p has not been used yet
Fresh(p) == p \in DOMAIN ncalls /\ ncalls[p] = 0

\* every run has been started and has loaded its file
Loaded == \A q \in Procs : q \in DOMAIN pom

\* Two runs of the program at two terminals, each one command with one
\* start or stop that the user approves, and both started before a prompt
\* is answered: a run loads the file when its instance is made, before any
\* run writes, and waits at the prompt; once both have loaded, each run is
\* answered, empties the file when it opens it and fills it when it closes
\* it, and the other run takes its steps at any point in between.  Both
\* runs are given the first minute of the day.
NextRace ==
    \E p \in Procs :
        \/ \E time \in {t \in Times : t.minute = 0}, activity \in Activities :
              p \notin DOMAIN pom /\ New(p, time, activity)
        \/ Fresh(p) /\ Start(p)
        \/ Fresh(p) /\ Stop(p)
        \/ Loaded /\ Answer(p, "y")
        \/ Close(p)

SpecRace == Init /\ [][NextRace]_vars

\* Files may exist for any of the days.
InitDays ==
    /\ \E existing \in SUBSET Paths :
          disk = [path \in existing |-> empty_day_file(path)]
    /\ pom = [p \in {} |-> NoOp]
    /\ ncalls = [p \in {} |-> 0]
    /\ last = NoOp
    /\ script = [path \in Paths |-> [a \in Activities |->
                    [ok |-> path \notin DOMAIN disk, calls |-> <<>>]]]
    /\ clock = [day |-> 0, minute |-> 0]
    /\ argv = [p \in {} |-> <<>>]
    /\ call = [p \in {} |-> <<>>]

\* One activity started and stopped with timestamps on any of the days,
\* at the first minute of the day.
NextDays ==
    \E p \in {1} :
        \/ \E time \in {t \in Datetimes : t.minute = 0} : New(p, time, "reading")
        \/ Start(p)
        \/ Stop(p)
        \/ \E input \in Answers : Answer(p, input)
        \/ Close(p)

SpecDays == InitDays /\ [][NextDays]_vars

(* ---------------------------- reform_data ----------------------------- *)

\* reform_data.main, the body of the loop: the new text of one file
reform_file(text) ==
    LET data == json_load(text)
        other(item) == item[1] # "date"
        new_data == << <<"date", dict_at(data, "date")>>,
                       <<"activities", SelectSeq(data, other)>> >>
    IN  json_dump(new_data)

\* reform_data.main: every .json file of the data directory rewritten
reform_main(dsk) == [path \in DOMAIN dsk |-> reform_file(dsk[path])]

\* the dicts with the keys of S in every order and values out of vals
RECURSIVE dicts_over(_, _)
dicts_over(S, vals) ==
    IF S = {} THEN {<<>>}
    ELSE UNION {{Append(d, <<k, v>>) : d \in dicts_over(S \ {k}, vals), v \in vals}
                : k \in S}

\* the activity logs found in old files: each activity absent, started, or
\* started and stopped
LegacyLogs ==
    LET first == isoformat([day |-> 0, minute |-> 0])
        later == isoformat([day |-> 0, minute |-> MaxMinute])
        lists == { << action_item("start", first) >>,
                   << action_item("start", first),
                      action_item("stop", later) >> }
    IN  UNION {dicts_over(S, lists) : S \in SUBSET Activities}

\* the three layouts of a persisted day: the activities at the top level,
\* under "activities", and under "activities" twice
LegacyFiles(path) ==
    UNION {{ json_dump(<< <<"date", path[2]>> >> \o log),
             json_dump(<< <<"date", path[2]>>, <<"activities", log>> >>),
             json_dump(<< <<"date", path[2]>>,
                          <<"activities", << <<"activities", log>> >> >> >>) }
           : log \in LegacyLogs}

\* A data directory of old files, before the migration has run.
InitLegacy ==
    /\ \E existing \in SUBSET Paths :
          disk \in [existing -> UNION {LegacyFiles(path) : path \in Paths}]
          /\ \A path \in existing : disk[path] \in LegacyFiles(path)
    /\ pom = [p \in {} |-> NoOp]
    /\ ncalls = [p \in {} |-> 0]
    /\ last = NoOp
    /\ script = [path \in Paths |-> [a \in Activities |->
                    [ok |-> FALSE, calls |-> <<>>]]]
    /\ clock = [day |-> 0, minute |-> 0]
    /\ argv = [p \in {} |-> <<>>]
    /\ call = [p \in {} |-> <<>>]

\* python reform_data.py, run once
Reform ==
    /\ last.op # "reform"
    /\ disk' = reform_main(disk)
    /\ last' = [NoOp EXCEPT !.op = "reform"]
    /\ UNCHANGED <<pom, ncalls, script, clock, argv, call>>

NextReform == Reform

SpecReform == InitLegacy /\ [][NextReform]_vars

(* ------------------------------ claims -------------------------------- *)

\* the step is the end of a call of instance p
Called(p) ==
    /\ p \in DOMAIN pom
    /\ p \in DOMAIN pom'
    /\ ncalls'[p] = ncalls[p] + 1

\* the instance of p as it was when the call that ends in the step was made
Entered(p) == IF p \in DOMAIN call THEN call[p].entered ELSE pom[p]

\* the data directory as it was when the call that ends in the step was made
DiskEntered(p) == IF p \in DOMAIN call THEN call[p].disk ELSE disk

\* the latest call that came to its end was made on the instance p holds,
\* and p is not inside another call
LatestBy(p) ==
    /\ last.proc = p
    /\ p \in DOMAIN pom
    /\ ncalls[p] > 0
    /\ p \notin DOMAIN call

\* no run has the file of the path open for writing
NotOpen(path) ==
    \A q \in DOMAIN call : call[q].at = "write" => pom[q].path # path

\* start, stop, start, ... beginning with start
alternates(actions) ==
    \A i \in DOMAIN actions :
        /\ "action" \in keys(actions[i])
        /\ dict_at(actions[i], "action") = (IF i % 2 = 1 THEN "start" ELSE "stop")

\* C1: on a date that began with no file, after a run of approved calls
\* start, stop, start, ... on an activity with increasing timestamps, each
\* its own invocation, the persisted log of the activity is exactly the
\* sequence of those calls.
C1_PersistedEqualsCalls ==
    \A path \in Paths, a \in Activities :
        (script[path][a].ok /\ script[path][a].calls # <<>> /\ NotOpen(path))
        => dict_get(persisted_log(disk, path), a, <<>>) = script[path][a].calls

\* C2: writing the day log an instance holds and loading the same date in
\* a new instance gives the same date and the same activity log.
C2_RoundTrip ==
    \A p \in DOMAIN pom :
        LET e == pom[p]
            loaded == Pomodoro_init(write_update(disk, e), e.time, e.activity)
        IN  /\ loaded.raised = ""
            /\ loaded.e.date = e.date
            /\ loaded.e.activity_log = e.activity_log

\* C3: every activity log, in memory and persisted, alternates start, stop,
\* ... beginning with start.
C3_Alternation ==
    /\ \A p \in DOMAIN pom : \A a \in keys(pom[p].activity_log) :
          alternates(dict_at(pom[p].activity_log, a))
    /\ \A path \in DOMAIN disk : \A a \in keys(persisted_log(disk, path)) :
          alternates(dict_at(persisted_log(disk, path), a))

C3_Witness ==
    \E p \in DOMAIN pom : \E a \in keys(persisted_log(disk, pom[p].path)) :
        /\ LatestBy(p)
        /\ last.op = "start"
        /\ last.writes = 1
        /\ Len(dict_at(persisted_log(disk, pom[p].path), a)) = 3
        /\ Len(dict_get(pom[p].activity_log, a, <<>>)) = 3

\* C4: a start or stop that reached the prompt and was answered with
\* anything but 'y' leaves the data directory as it was; no file appears.
C4_RefusalLeavesFile ==
    [][\A p \in Procs :
          (/\ Called(p)
           /\ last'.op \in {"start", "stop"}
           /\ last'.asked
           /\ last'.input # "y")
          => disk' = DiskEntered(p)]_vars

C4_Witness ==
    \E p \in DOMAIN pom :
        /\ LatestBy(p)
        /\ last.op = "start"
        /\ last.asked
        /\ last.input = ""
        /\ ~last.file
        /\ pom[p].path \notin DOMAIN disk

\* C5: stop on an activity that is Absent or Stopped warns that there is
\* no active session, does not prompt, and changes neither the instance
\* nor the data directory.
C5_StopInvalid ==
    [][\A p \in Procs :
          (/\ Called(p)
           /\ last'.op = "stop"
           /\ activity_state(Entered(p).activity_log, Entered(p).activity)
                 \in {"Absent", "Stopped"})
          => /\ last'.warning = "no-active-session"
             /\ ~last'.asked
             /\ last'.writes = 0
             /\ pom'[p] = Entered(p)
             /\ disk' = DiskEntered(p)]_vars

C5_Witness ==
    \E p \in DOMAIN pom :
        /\ LatestBy(p)
        /\ last.op = "stop"
        /\ last.warning = "no-active-session"
        /\ activity_state(pom[p].activity_log, pom[p].activity) = "Stopped"

\* C6: start on an activity that is Running warns that a session is in
\* progress, does not prompt, and changes neither the instance nor the data
\* directory, whatever the timestamp.
C6_StartInvalid ==
    [][\A p \in Procs :
          (/\ Called(p)
           /\ last'.op = "start"
           /\ activity_state(Entered(p).activity_log, Entered(p).activity)
                 = "Running")
          => /\ last'.warning = "in-progress"
             /\ ~last'.asked
             /\ last'.writes = 0
             /\ pom'[p] = Entered(p)
             /\ disk' = DiskEntered(p)]_vars

C6_Witness ==
    \E p \in DOMAIN pom :
        /\ LatestBy(p)
        /\ last.op = "start"
        /\ last.warning = "in-progress"
        /\ activity_state(pom[p].activity_log, pom[p].activity) = "Running"
        /\ pom[p].time
              # fromisoformat(dict_at(last_of(dict_at(pom[p].activity_log,
                                                      pom[p].activity)),
                                      "time"))

\* C7: two starts in a row on the same activity with the same timestamp,
\* each the only operation of its invocation and each answered 'y' if
\* prompted, beginning with the activity Absent or Stopped, leave the
\* persisted log with exactly one start added.
C7_StartTwiceOnce ==
    [][\A p \in Procs :
          (/\ Called(p)
           /\ last.op = "start" /\ last'.op = "start"
           /\ last.first /\ last'.first
           /\ last'.activity = last.activity
           /\ last'.time = last.time
           /\ last.asked => last.input = "y"
           /\ last'.asked => last'.input = "y"
           /\ last.state \in {"Absent", "Stopped"})
          => dict_get(persisted_log(disk', pom[p].path), pom[p].activity, <<>>)
               = Append(last.before,
                        action_item("start", isoformat(last.time)))]_vars

\* the minute on the time line that an ISO string names
minutes_at(actions, i) ==
    LET iso == dict_at(actions[i], "time")
    IN  (two_digit_number(SubSeq(iso, 9, 10)) - 1) * 1440
        + two_digit_number(SubSeq(iso, 12, 13)) * 60
        + two_digit_number(SubSeq(iso, 15, 16))

\* the sum over the pairs i of actions[2i+1].time - actions[2i].time,
\* counting positions from 0 as the lists of the program do
RECURSIVE pair_sum(_, _)
pair_sum(actions, pairs) ==
    IF pairs = {} THEN 0
    ELSE LET i == CHOOSE x \in pairs : TRUE
         IN  (minutes_at(actions, 2 * i + 2) - minutes_at(actions, 2 * i + 1))
             + pair_sum(actions, pairs \ {i})

\* the row expected for a list of actions at a reference time
expected_row(activity, actions, now) ==
    LET n == Len(actions) IN
    [activity |-> activity,
     total_time |->
        pair_sum(actions, 0 .. (n \div 2) - 1)
        + IF n % 2 = 1
          THEN (now.day * 1440 + now.minute) - minutes_at(actions, n)
          ELSE 0,
     finished_sessions |-> n \div 2,
     ongoing_sessions |-> n % 2]

\* [start@09:00, stop@09:25, start@10:00] read at 10:05
ExampleDay ==
    [time |-> [day |-> 0, minute |-> 605],
     activity_log |->
        << <<"reading",
             << action_item("start", "2024-01-01T09:00:00"),
                action_item("stop", "2024-01-01T09:25:00"),
                action_item("start", "2024-01-01T10:00:00") >> >> >>]

\* C8: recap prints one row per activity of the day log, in the order of
\* the log, with finished_sessions = floor(n/2), ongoing_sessions = n mod 2
\* and total_time the sum of the finished pairs plus, for odd n, the time
\* from the last action to the reference time; the example of three
\* actions read at 10:05 gives 1 finished, 1 ongoing, 30 minutes.
C8_RecapRows ==
    /\ \A p \in DOMAIN pom :
          (LatestBy(p) /\ last.op = "recap")
          => LET log == pom[p].activity_log
                 rows == last.printed
             IN  /\ Len(rows) = Len(log)
                 /\ \A i \in DOMAIN log :
                       rows[i] = expected_row(log[i][1], log[i][2], pom[p].time)
    /\ recap_rows(ExampleDay)
          = << [activity |-> "reading", total_time |-> 30,
                finished_sessions |-> 1, ongoing_sessions |-> 1] >>

C8_Witness ==
    \E p \in DOMAIN pom :
        /\ LatestBy(p)
        /\ last.op = "recap"
        /\ Len(last.printed) = 2
        /\ last.printed[1].activity = "coding"
        /\ \E i \in DOMAIN last.printed :
              /\ last.printed[i].finished_sessions = 1
              /\ last.printed[i].ongoing_sessions = 1
              /\ last.printed[i].total_time = 2

\* C9: when _add_action is entered with a candidate equal in kind and
\* timestamp to the last action of the activity's non-empty log, nothing is
\* appended and nothing is written, whatever the answer at the prompt.
C9_DuplicateSkipped ==
    [][\A p \in Procs : \A action \in {"start", "stop"} :
          (/\ Called(p)
           /\ last'.op = "_add_action:" \o action
           /\ Entered(p).activity \in keys(Entered(p).activity_log)
           /\ dict_at(Entered(p).activity_log, Entered(p).activity) # <<>>
           /\ last_of(dict_at(Entered(p).activity_log, Entered(p).activity))
                 = action_item(action, isoformat(Entered(p).time)))
          => /\ pom'[p].activity_log = Entered(p).activity_log
             /\ disk' = DiskEntered(p)]_vars

\* C10: every activity that is a key of the activity log of an instance
\* that is not inside a call has at least one action.
C10_NonEmpty ==
    \A p \in (DOMAIN pom) \ (DOMAIN call) : \A a \in keys(pom[p].activity_log) :
        Len(dict_at(pom[p].activity_log, a)) >= 1

\* C11: a start or stop that is declined at the prompt leaves the activity
\* log of the instance, its keys and every list, as it was before the
\* operation.
C11_RefusalLeavesMemory ==
    [][\A p \in Procs :
          (/\ Called(p)
           /\ last'.op \in {"start", "stop"}
           /\ last'.asked
           /\ last'.input # "y")
          => /\ pom'[p].activity_log = Entered(p).activity_log
             /\ pom'[p].data = Entered(p).data]_vars

\* C12: in every operation each append and each write comes after a call
\* of the prompt that returned true, each append is followed by exactly one
\* write, and what that write leaves on disk is the whole day log: the date
\* and the activity log the instance holds.
C12_ConfirmationOrdering ==
    [][\A p \in Procs :
          Called(p)
          => LET ev == last'.events IN
             /\ \A i \in DOMAIN ev :
                   ev[i] \in {"append", "write"}
                   => \E j \in 1 .. (i - 1) : ev[j] = "gate:true"
             /\ \A i \in DOMAIN ev :
                   ev[i] = "append"
                   => Cardinality({j \in DOMAIN ev : j > i /\ ev[j] = "write"}) = 1
             /\ (\E i \in DOMAIN ev : ev[i] = "write")
                => /\ pom'[p].path \in DOMAIN disk'
                   /\ disk'[pom'[p].path]
                         = json_dump(<< <<"date", pom'[p].date>>,
                                        <<"activities", pom'[p].activity_log>> >>)]_vars

\* C13: show and recap change neither the instance nor the data directory
\* and never prompt.
C13_ReadOnly ==
    [][\A p \in Procs :
          (Called(p) /\ last'.op \in {"show", "recap"})
          => /\ pom'[p] = pom[p]
             /\ disk' = disk
             /\ ~last'.asked
             /\ last'.events = <<>>]_vars

C13_Witness ==
    \E p \in DOMAIN pom :
        /\ LatestBy(p)
        /\ last.op = "show"
        /\ last.warning = "no-actions"
        /\ pom[p].activity \notin keys(pom[p].activity_log)
        /\ pom[p].activity_log # EmptyDict

\* C18: a start or stop on one activity leaves the list of every other
\* activity as it was, in the instance and in every persisted file.
C18_ActivityIsolation ==
    [][\A p \in Procs :
          (Called(p) /\ last'.op \in {"start", "stop"})
          => \A b \in Activities \ {pom[p].activity} :
                /\ b \in keys(pom'[p].activity_log)
                      <=> b \in keys(Entered(p).activity_log)
                /\ dict_get(pom'[p].activity_log, b, <<>>)
                      = dict_get(Entered(p).activity_log, b, <<>>)
                /\ \A path \in Paths :
                      /\ b \in keys(persisted_log(disk', path))
                            <=> b \in keys(persisted_log(DiskEntered(p), path))
                      /\ dict_get(persisted_log(disk', path), b, <<>>)
                            = dict_get(persisted_log(DiskEntered(p), path), b, <<>>)]_vars

C18_Witness ==
    \E p \in DOMAIN pom : \E b \in Activities \ {pom[p].activity} :
        /\ LatestBy(p)
        /\ last.op = "stop"
        /\ last.writes = 1
        /\ Len(dict_get(persisted_log(disk, pom[p].path), b, <<>>)) = 2

\* C14: the reference timestamp of a run is the current moment when
\* neither --time nor --date is given, has today's date when only --time
\* is given, and has the current time of day when only --date is given.
C14_MergeTimesDefaults ==
    \A p \in (DOMAIN argv) \cap (DOMAIN pom) :
        LET a == argv[p]
            t == pom[p].time
        IN  /\ (a.time = <<>> /\ a.date = <<>>) => t = a.now
            /\ (a.time # <<>> /\ a.date = <<>>) => t.day = a.now.day
            /\ (a.time = <<>> /\ a.date # <<>>) => t.minute = a.now.minute

\* C15: when two runs have loaded the same date before either saves and
\* both appends are approved, the file after the second write holds what
\* the second writer had loaded plus its own append and nothing of the
\* first writer's, and no error is raised.
C15_LastWriterWins ==
    [][\A p \in Procs :
          (/\ Called(p)
           /\ last'.op \in {"start", "stop"}
           /\ last'.first /\ last'.writes = 1
           /\ last.op \in {"start", "stop"}
           /\ last.first /\ last.writes = 1
           /\ last.proc # p
           /\ p \in last.loaded_before)
          => LET a == pom[p].activity
                 after == persisted_log(disk', pom[p].path)
             IN  /\ last'.raised = ""
                 /\ ~decode_error(disk'[pom[p].path])
                 /\ dict_get(after, a, <<>>)
                       = Append(dict_get(Entered(p).activity_log, a, <<>>),
                                action_item(last'.op, isoformat(pom[p].time)))
                 /\ \A b \in Activities \ {a} :
                       dict_get(after, b, <<>>)
                          = dict_get(Entered(p).activity_log, b, <<>>)]_vars

\* the files of the data directory that are named by another day than d
files_of_other_days(dsk, d) ==
    {path \in DOMAIN dsk : path[2] # date_isoformat([day |-> d, minute |-> 0])}

\* the state of an activity in the file named by day d
day_state(dsk, d, activity) ==
    LET named == {path \in DOMAIN dsk :
                     path[2] = date_isoformat([day |-> d, minute |-> 0])}
    IN  IF named = {} THEN "Absent"
        ELSE activity_state(persisted_log(dsk, CHOOSE path \in named : TRUE),
                            activity)

\* C16: an instance holds what the file of its timestamp's date holds, an
\* operation leaves the files of all other dates as they were, and a stop
\* on a date where the activity is not running, while a start of it is
\* open on another date, is refused as having no active session and leaves
\* every file unchanged, the open start included.
C16_DateScoped ==
    [][\A p \in Procs :
          /\ (p \in DOMAIN pom' /\ ncalls'[p] = 0 /\ p \notin DOMAIN call')
             => pom'[p].activity_log
                   = persisted_log(disk',
                                   <<"data", date_isoformat(pom'[p].time), "json">>)
          /\ Called(p)
             => /\ files_of_other_days(disk', pom[p].time.day)
                      = files_of_other_days(DiskEntered(p), pom[p].time.day)
                /\ \A path \in files_of_other_days(disk', pom[p].time.day) :
                      disk'[path] = DiskEntered(p)[path]
          /\ (/\ Called(p)
              /\ last'.op = "stop"
              /\ last'.first
              /\ day_state(DiskEntered(p), pom[p].time.day, pom[p].activity)
                    \in {"Absent", "Stopped"}
              /\ \E d \in Days \ {pom[p].time.day} :
                    day_state(DiskEntered(p), d, pom[p].activity) = "Running")
             => /\ last'.warning = "no-active-session"
                /\ disk' = DiskEntered(p)]_vars

C16_Witness ==
    \E p \in DOMAIN pom :
        /\ LatestBy(p)
        /\ last.op = "stop"
        /\ last.first
        /\ last.warning = "no-active-session"
        /\ pom[p].time.day = 1
        /\ day_state(disk, 0, pom[p].activity) = "Running"
        /\ day_state(disk, 1, pom[p].activity) = "Stopped"

\* the activity mapping an old file stands for, in each of its layouts
legacy_log(data) ==
    IF "activities" \notin keys(data)
    THEN LET other(item) == item[1] # "date" IN SelectSeq(data, other)
    ELSE IF "activities" \in keys(dict_at(data, "activities"))
         THEN dict_at(dict_at(data, "activities"), "activities")
         ELSE dict_at(data, "activities")

\* C17: the migration leaves every file as {date, activities: {name:
\* [actions]}} with the date and the action lists it had, whether it was
\* flat, nested under activities.activities, or already in that layout.
C17_ReformNormalizes ==
    [][(last'.op = "reform" /\ last.op # "reform")
       => /\ DOMAIN disk' = DOMAIN disk
          /\ \A path \in DOMAIN disk :
                LET old == read_file(disk, path)
                    new == read_file(disk', path)
                IN  /\ keys(new) = {"date", "activities"}
                    /\ dict_at(new, "date") = dict_at(old, "date")
                    /\ keys(dict_at(new, "activities")) = keys(legacy_log(old))
                    /\ \A a \in keys(legacy_log(old)) :
                          dict_at(dict_at(new, "activities"), a)
                             = dict_at(legacy_log(old), a)]_vars

\* every stop of the list is not earlier than the start it closes, and the
\* reference time is not earlier than a start left open
in_time_order(actions, now) ==
    /\ \A n \in 1 .. (Len(actions) \div 2) :
          minutes_at(actions, 2 * n - 1) <= minutes_at(actions, 2 * n)
    /\ Len(actions) % 2 = 1
          => minutes_at(actions, Len(actions)) <= now.day * 1440 + now.minute

\* C19 as stated: whatever timestamps the approved starts and stops of a
\* day carried and whatever the reference time on that day, every row of
\* recap has a total_time of at least zero.
C19_NonNegative ==
    \A p \in DOMAIN pom :
        (LatestBy(p) /\ last.op = "recap")
        => \A i \in DOMAIN last.printed : last.printed[i].total_time >= 0

\* C19, amended: a row of recap has a total_time of at least zero when, in
\* that activity's list, no stop is earlier than the start it closes and
\* the reference time is not earlier than a start left open.
C19_NonNegativeInOrder ==
    \A p \in DOMAIN pom :
        (LatestBy(p) /\ last.op = "recap")
        => \A i \in DOMAIN last.printed :
              in_time_order(dict_at(pom[p].activity_log, last.printed[i].activity),
                            pom[p].time)
              => last.printed[i].total_time >= 0

C19_Witness ==
    \E p \in DOMAIN pom :
        /\ LatestBy(p)
        /\ last.op = "recap"
        /\ \E i \in DOMAIN last.printed :
              /\ in_time_order(dict_at(pom[p].activity_log,
                                       last.printed[i].activity),
                               pom[p].time)
              /\ last.printed[i].finished_sessions >= 1
              /\ last.printed[i].total_time > 0

====
